---- MODULE Spec2Model ----
(***************************************************************************)
(* Smart water usage monitoring system: the usage accountants              *)
(* (simulate_data.simulate_water_data,                                     *)
(* data_processing.generate_demo_historical_data,                          *)
(* dashboard.generate_demo_data), simulate_data.upload_to_firebase, the    *)
(* rolling z-score detector (data_processing.detect_anomalies), and the    *)
(* period usage, history and connection log of                             *)
(* firebase_manager.FirebaseManager.                                       *)
(*                                                                         *)
(* Units.  Time is in minutes since 00:00 of day 0 of the model calendar.  *)
(* Volumes and flow rates are integers in units of 1e-4 litre (resp.       *)
(* 1e-4 litre/minute), which represents every product the loops form from  *)
(* the draws below exactly; round(x, 2) is Round2.  total_ml is in         *)
(* millilitres; total_volume = total_ml / 1000 litres is 10 * total_ml in  *)
(* the unit of 1e-4 litre.  Floating-point rounding error is not modelled. *)
(*                                                                         *)
(* Each component has its own specification (SpecUsage, SpecDetector,      *)
(* SpecPeriodUsage, SpecHistory); the variables of the other components    *)
(* stay idle.  Timestamps of stored readings are in seconds.               *)
(***************************************************************************)
EXTENDS Integers, Sequences, FiniteSets, TLC

(***************************************************************************)
(* Bounds of the model                                                     *)
(***************************************************************************)
\* the loops are followed for at most this many readings
MaxReadings == 4
\* length of a month of the model calendar (datetime.day wraps after it)
DaysInMonth == 28

\* values of random.random() in tenths (simulate_data.py:73,86)
RandomDraws == {0, 9}
\* values of np.random.normal(0, 0.1) in tenths (data_processing.py:234);
\* the normal distribution is unbounded, -15 stands for a draw below -1
NormalDraws == {-15, 0, 1}

MinutesPerDay == 24 * 60

(***************************************************************************)
(* datetime                                                                *)
(***************************************************************************)
\* calendar day (days since day 0) of a time
DateOf(t) == t \div MinutesPerDay
\* datetime.hour
HourOf(t) == (t % MinutesPerDay) \div 60
\* datetime.day: the day of the month
DayOf(t) == (DateOf(t) % DaysInMonth) + 1

\* start times: 09:58, 22:30 and 23:58, on the first and on the last day
\* of a month
StartTimes ==
    { d * MinutesPerDay + m : d \in {0, DaysInMonth - 1}, m \in {598, 1350, 1438} }

(***************************************************************************)
(* round(x, 2): round half to even on the exact value, x in 1e-4 units     *)
(***************************************************************************)
RoundHalfEven(n, d) ==
    LET q == n \div d
        r == n % d
    IN  IF 2 * r < d THEN q
        ELSE IF 2 * r > d THEN q + 1
        ELSE IF q % 2 = 0 THEN q ELSE q + 1

Round2(x) == 100 * RoundHalfEven(x, 100)

Max(a, b) == IF a >= b THEN a ELSE b

\* daily_patterns / daily_pattern, multipliers in tenths
daily_patterns ==
    [h \in 0..23 |->
        CASE h = 0 -> 3 [] h = 1 -> 2 [] h = 2 -> 1 [] h = 3 -> 1
          [] h = 4 -> 2 [] h = 5 -> 5 [] h = 6 -> 10 [] h = 7 -> 15
          [] h = 8 -> 12 [] h = 9 -> 8 [] h = 10 -> 7 [] h = 11 -> 8
          [] h = 12 -> 10 [] h = 13 -> 9 [] h = 14 -> 7 [] h = 15 -> 6
          [] h = 16 -> 7 [] h = 17 -> 12 [] h = 18 -> 18 [] h = 19 -> 15
          [] h = 20 -> 12 [] h = 21 -> 9 [] h = 22 -> 6 [] h = 23 -> 4]

(***************************************************************************)
(* State of the usage accountants                                          *)
(***************************************************************************)
VARIABLES
    fn,            \* the accountant that runs
    num_readings,  \* num_days * readings_per_day, resp. len(dates)
    interval,      \* minutes between two readings
    current_time,  \* time of the reading the loop is at
    i,             \* readings produced so far
    hourly_usage,  \* accumulator hourly_usage / hourly_sum
    daily_usage,   \* accumulator daily_usage / daily_sum
    last_day,
    last_hour,
    volume,        \* volume / vol of the last iteration, unrounded
    readings,      \* the rows produced so far
    batch_data,    \* the readings upload_to_firebase puts, in upload order
    pc             \* "loop", "done", "raised", "uploaded" or "upload_failed"

usageVars == <<fn, num_readings, interval, current_time, i, hourly_usage,
               daily_usage, last_day, last_hour, volume, readings, batch_data,
               pc>>

(***************************************************************************)
(* The reset of the accumulators at the head of the loop body              *)
(***************************************************************************)
DailyAfterReset(day, prev_day, daily) == IF day # prev_day THEN 0 ELSE daily

HourlyResetAlways(hour, prev_hour, hourly) == 0
HourlyAfterReset(hour, prev_hour, hourly) == IF hour # prev_hour THEN 0 ELSE hourly

(***************************************************************************)
(* simulate_water_data                                                     *)
(***************************************************************************)
\* flow_rate = base_flow * day_multiplier * (1 + random.random() * 0.3 - 0.15)
SimFlowRate(hour, r1, r2) ==
    LET base_flow10 == daily_patterns[hour] * 8
        day_multiplier20 == 20 + (r1 - 5)
        variation100 == 100 + 3 * r2 - 15
    IN  (base_flow10 * day_multiplier20 * variation100) \div 2

\* volume = flow_rate * minutes
SimVolumePerHour(flow_rate, minutes) == (flow_rate * minutes) \div 60
SimVolume(flow_rate, minutes) == flow_rate * minutes

\* the values of (num_days, readings_per_day); readings_per_day = 0 raises
\* ZeroDivisionError at interval = 24 * 60 * 60 / readings_per_day
SimConfigs == (0..2) \X {0, 1, 2, 24, 1440}

InitSimulate ==
    /\ fn = "simulate_water_data"
    /\ \E c \in SimConfigs :
         /\ num_readings = c[1] * c[2]
         /\ interval = IF c[2] = 0 THEN 0 ELSE MinutesPerDay \div c[2]
         /\ pc = IF c[2] = 0 THEN "raised" ELSE "loop"
    /\ current_time \in StartTimes
    /\ i = 0
    /\ hourly_usage = 0
    /\ daily_usage = 0
    /\ last_day = IF pc = "raised" THEN 0 ELSE DayOf(current_time)
    /\ last_hour = IF pc = "raised" THEN 0 ELSE HourOf(current_time)
    /\ volume = 0
    /\ readings = <<>>
    /\ batch_data = <<>>

SimulateStep ==
    /\ fn = "simulate_water_data"
    /\ pc = "loop"
    /\ i < num_readings
    /\ i < MaxReadings
    /\ \E r1, r2 \in RandomDraws :
         LET hour == HourOf(current_time)
             daily == DailyAfterReset(DayOf(current_time), last_day, daily_usage)
             hourly == HourlyAfterReset(hour, last_hour, hourly_usage)
             flow_rate == SimFlowRate(hour, r1, r2)
             vol == SimVolume(flow_rate, interval)
         IN  /\ last_day' = IF DayOf(current_time) # last_day
                              THEN DayOf(current_time) ELSE last_day
             /\ last_hour' = IF hour # last_hour THEN hour ELSE last_hour
             /\ volume' = vol
             /\ hourly_usage' = hourly + vol
             /\ daily_usage' = daily + vol
             /\ readings' = Append(readings,
                    [timestamp |-> current_time,
                     flow_rate |-> Round2(flow_rate),
                     volume |-> Round2(vol),
                     hourly_usage |-> Round2(hourly + vol),
                     daily_usage |-> Round2(daily + vol)])
    /\ current_time' = current_time + interval
    /\ i' = i + 1
    /\ UNCHANGED <<fn, num_readings, interval, batch_data, pc>>

SimulateReturn ==
    /\ fn = "simulate_water_data"
    /\ pc = "loop"
    /\ i = num_readings
    /\ pc' = "done"
    /\ UNCHANGED <<fn, num_readings, interval, current_time, i, hourly_usage,
                   daily_usage, last_day, last_hour, volume, readings,
                   batch_data>>

(***************************************************************************)
(* upload_to_firebase(readings) on the list simulate_water_data returned   *)
(***************************************************************************)
\* starting_volume, millilitres
starting_volume == 500000

\* readings.index(reading): the first position holding an equal reading,
\* counted from 0
IndexOf(rs, r) == (CHOOSE k \in 1..Len(rs) :
                     rs[k] = r /\ \A j \in 1..(k - 1) : rs[j] # r) - 1

\* volume_ml = reading_copy.pop('volume', 0) * 1000
VolumeMl(r) == r.volume \div 10

\* reading_copy['total_ml'] =
\*     starting_volume + (volume_ml * (readings.index(reading) + 1))
UploadTotalMl(rs, r) == starting_volume + VolumeMl(r) * (IndexOf(rs, r) + 1)

\* the batch is built and put; readings[-1] of an empty list and a failed
\* request raise, which upload_to_firebase answers with False
UploadToFirebase ==
    /\ fn = "simulate_water_data"
    /\ pc = "done"
    /\ batch_data' = [k \in 1..Len(readings) |->
                        [timestamp |-> readings[k].timestamp,
                         flow_rate |-> readings[k].flow_rate,
                         total_ml |-> UploadTotalMl(readings, readings[k])]]
    /\ \E request_ok \in BOOLEAN :
         pc' = IF request_ok /\ readings # <<>> THEN "uploaded" ELSE "upload_failed"
    /\ UNCHANGED <<fn, num_readings, interval, current_time, i, hourly_usage,
                   daily_usage, last_day, last_hour, volume, readings>>

(***************************************************************************)
(* generate_demo_historical_data and dashboard.generate_demo_data          *)
(***************************************************************************)
DemoFns == {"generate_demo_historical_data", "generate_demo_data"}

\* flow = base_flow * (1 + np.random.normal(0, 0.1))
DemoFlow(hour, n) == daily_patterns[hour] * 8 * (10 + n) * 100

\* vol = round(flow * 60 / 1000, 2) in data_processing, flow * 60 / 1000
\* in dashboard
DemoVolume(f, flow) ==
    IF f = "generate_demo_historical_data"
    THEN Round2((flow * 60) \div 1000)
    ELSE (flow * 60) \div 1000

\* flow_rate.append(max(0, round(flow, 2))), resp. max(0, flow)
DemoFlowRate(f, flow) ==
    IF f = "generate_demo_historical_data"
    THEN Max(0, Round2(flow))
    ELSE Max(0, flow)

\* hourly_usage.append(round(hourly_sum, 2)), resp. hourly_sum
DemoEmit(f, sum) ==
    IF f = "generate_demo_historical_data" THEN Round2(sum) ELSE sum

\* dates = pd.date_range(start, end, freq='1H'); dates[0] of an empty range
\* raises IndexError
InitDemo ==
    /\ fn \in DemoFns
    /\ num_readings \in IF fn = "generate_demo_data"
                        THEN {7 * 24 + 1} ELSE 0..MaxReadings
    /\ interval = 60
    /\ current_time \in StartTimes
    /\ i = 0
    /\ hourly_usage = 0
    /\ daily_usage = 0
    /\ last_day = IF num_readings = 0 THEN 0 ELSE DayOf(current_time)
    /\ last_hour = IF num_readings = 0 THEN 0 ELSE HourOf(current_time)
    /\ volume = 0
    /\ readings = <<>>
    /\ batch_data = <<>>
    /\ pc = IF num_readings = 0 THEN "raised" ELSE "loop"

DemoStep ==
    /\ fn \in DemoFns
    /\ pc = "loop"
    /\ i < num_readings
    /\ i < MaxReadings
    /\ \E n \in NormalDraws :
         LET hour == HourOf(current_time)
             daily == DailyAfterReset(DayOf(current_time), last_day, daily_usage)
             hourly == HourlyAfterReset(hour, last_hour, hourly_usage)
             flow == DemoFlow(hour, n)
             vol == DemoVolume(fn, flow)
         IN  /\ last_day' = IF DayOf(current_time) # last_day
                              THEN DayOf(current_time) ELSE last_day
             /\ last_hour' = IF hour # last_hour THEN hour ELSE last_hour
             /\ volume' = vol
             /\ hourly_usage' = hourly + vol
             /\ daily_usage' = daily + vol
             /\ readings' = Append(readings,
                    [timestamp |-> current_time,
                     flow_rate |-> DemoFlowRate(fn, flow),
                     volume |-> vol,
                     hourly_usage |-> DemoEmit(fn, hourly + vol),
                     daily_usage |-> DemoEmit(fn, daily + vol)])
    /\ current_time' = current_time + interval
    /\ i' = i + 1
    /\ UNCHANGED <<fn, num_readings, interval, batch_data, pc>>

\* anomaly_indices = np.random.choice(len(df), size=3, replace=False) raises
\* ValueError on fewer than 3 rows; the rows chosen, the first excepted, get
\* flow_rate * 3
DemoReturn ==
    /\ fn \in DemoFns
    /\ pc = "loop"
    /\ i = num_readings
    /\ IF Len(readings) < 3
       THEN /\ pc' = "raised"
            /\ UNCHANGED readings
       ELSE /\ pc' = "done"
            /\ \E anomaly_indices \in SUBSET (1..Len(readings)) :
                 /\ Cardinality(anomaly_indices) = 3
                 /\ readings' = [idx \in 1..Len(readings) |->
                        IF idx \in anomaly_indices /\ idx > 1
                        THEN [readings[idx] EXCEPT !.flow_rate = @ * 3]
                        ELSE readings[idx]]
    /\ UNCHANGED <<fn, num_readings, interval, current_time, i, hourly_usage,
                   daily_usage, last_day, last_hour, volume, batch_data>>

(***************************************************************************)
(* detect_anomalies(df, column, window, threshold)                         *)
(*                                                                         *)
(* The frame is [rows, has_column, numeric, x]: the number of rows, whether*)
(* the requested column is among df.columns, whether that column holds     *)
(* numbers only, and the values of the column.  Indices are 1-based: index *)
(* i of the model is position i - 1 of the series.  Means, variances and   *)
(* z-scores are exact rationals; a flag is "True", "False" or "NaN".       *)
(***************************************************************************)
\* longest series whose values are enumerated freely
MaxLen == 4
MaxCalls == 2
\* values of the enumerated series
SeriesValues == {0, 1, 2}
\* the flat series with one spike: length, constants and spike values
DefaultWindow == 20
DefaultThreshold == <<3, 1>>
SpikeLen == DefaultWindow + 10
FlatValues == {0, 5}
SpikeValues == {-40, 4, 5, 50}

\* window sizes and thresholds (numerator, denominator) passed in
Windows == {2, 3, 4, DefaultWindow}
Thresholds == {<<1, 2>>, <<1, 1>>, <<3, 2>>, DefaultThreshold}

VARIABLES
    df,             \* the frame passed in
    window,
    threshold,
    anomalies,      \* the series returned: [dtype, values]
    caught,         \* the except branch of detect_anomalies was taken
    anomaly_points, \* rows selected by historical_tab
    calls,          \* number of detect_anomalies calls made on df
    apc             \* "call", "returned", "plotted" or "raised"

anomalyVars == <<df, window, threshold, anomalies, caught, anomaly_points,
                 calls, apc>>

Min(a, b) == IF a <= b THEN a ELSE b

RECURSIVE SumIdx(_, _, _)
SumIdx(x, a, b) == IF a > b THEN 0 ELSE x[a] + SumIdx(x, a + 1, b)

RECURSIVE SumSqIdx(_, _, _)
SumSqIdx(x, a, b) == IF a > b THEN 0 ELSE x[a] * x[a] + SumSqIdx(x, a + 1, b)

\* rolling(window, center=True): the window of index i ends offset
\* positions after i, offset = (window - 1) // 2, and holds window positions
WindowEndHalf(idx, w) == idx + w \div 2
WindowEnd(idx, w) == idx + (w - 1) \div 2
WindowStart(idx, w) == WindowEnd(idx, w) - w + 1

\* min_periods defaults to the window size
MinPeriodsOne(w) == 1
MinPeriods(w) == w

NaN == [nan |-> TRUE, num |-> 0, den |-> 1]

\* the observations of the window that lie inside the series
WindowLo(idx, w) == Max(WindowStart(idx, w), 1)
WindowHi(idx, w, n) == Min(WindowEnd(idx, w), n)
WindowCount(idx, w, n) == Max(0, WindowHi(idx, w, n) - WindowLo(idx, w) + 1)

\* df[column].rolling(window=window, center=True).mean()
RollingMean(x, w) ==
    [idx \in 1..Len(x) |->
        LET c == WindowCount(idx, w, Len(x))
        IN  IF c < MinPeriods(w) \/ c < 1 THEN NaN
            ELSE [nan |-> FALSE,
                  num |-> SumIdx(x, WindowLo(idx, w), WindowHi(idx, w, Len(x))),
                  den |-> c]]

\* df[column].rolling(window=window, center=True).std(): the sample
\* standard deviation (ddof = 1), kept as its square
RollingStd(x, w) ==
    [idx \in 1..Len(x) |->
        LET c == WindowCount(idx, w, Len(x))
            lo == WindowLo(idx, w)
            hi == WindowHi(idx, w, Len(x))
            S == SumIdx(x, lo, hi)
            Q == SumSqIdx(x, lo, hi)
        IN  IF c < MinPeriods(w) \/ c < 2 THEN NaN
            ELSE [nan |-> FALSE, num |-> c * Q - S * S, den |-> c * (c - 1)]]

\* (df[column] - rolling_mean) / rolling_std: NaN propagates, 0 / 0 is NaN
\* and a / 0 is infinite; a finite z-score is kept as its sign and square
ZScores(x, rolling_mean, rolling_std) ==
    [idx \in 1..Len(x) |->
        LET m == rolling_mean[idx]
            s == rolling_std[idx]
            diff == x[idx] * m.den - m.num
            sign == IF diff < 0 THEN -1 ELSE IF diff > 0 THEN 1 ELSE 0
        IN  IF m.nan \/ s.nan THEN [kind |-> "nan", sign |-> 0, num |-> 0, den |-> 1]
            ELSE IF s.num = 0
                 THEN IF diff = 0
                      THEN [kind |-> "nan", sign |-> 0, num |-> 0, den |-> 1]
                      ELSE [kind |-> "inf", sign |-> sign, num |-> 1, den |-> 0]
            ELSE [kind |-> "finite", sign |-> sign,
                  num |-> (diff * diff * s.den) \div m.den,
                  den |-> m.den * s.num]]

\* abs(z) > threshold, elementwise; a comparison with NaN is False
GreaterEqThreshold(z, t) ==
    IF z.kind = "nan" THEN "False"
    ELSE IF z.kind = "inf" THEN "True"
    ELSE IF z.num * t[2] * t[2] >= t[1] * t[1] * z.den THEN "True" ELSE "False"

SignedGreaterThreshold(z, t) ==
    IF z.kind = "nan" THEN "False"
    ELSE IF z.kind = "inf" THEN (IF z.sign > 0 THEN "True" ELSE "False")
    ELSE IF z.sign > 0 /\ z.num * t[2] * t[2] > t[1] * t[1] * z.den
         THEN "True" ELSE "False"

AbsGreaterThreshold(z, t) ==
    IF z.kind = "nan" THEN "False"
    ELSE IF z.kind = "inf" THEN "True"
    ELSE IF z.num * t[2] * t[2] > t[1] * t[1] * z.den THEN "True" ELSE "False"

\* the body of detect_anomalies; raised tells that the except branch ran
\* except Exception: an all-NaN series in place of the all-False one
ExceptSeriesNaN(frame) ==
    [dtype |-> "float64", raised |-> TRUE,
     values |-> [idx \in 1..frame.rows |-> "NaN"]]

\* except Exception: print the error, return pd.Series(False, index=df.index)
ExceptSeries(frame) ==
    [dtype |-> "bool", raised |-> TRUE,
     values |-> [idx \in 1..frame.rows |-> "False"]]

\* a detector that clips the column in place before it computes
FrameClipped(frame) ==
    [frame EXCEPT !.x = [idx \in 1..Len(@) |-> Min(@[idx], 1)]]

\* the frame after a call: rolling(), mean(), std() and the arithmetic on
\* them build new objects, nothing is assigned into df
FrameAfterDetect(frame) == frame

detect_anomalies(frame, w, t) ==
    IF frame.rows = 0 \/ ~frame.has_column
    THEN \* pd.Series(index=df.index): one NaN per row
         [dtype |-> "float64", raised |-> FALSE,
          values |-> [idx \in 1..frame.rows |-> "NaN"]]
    ELSE IF ~frame.numeric
    THEN \* rolling() of a non-numeric column raises inside the try
         ExceptSeries(frame)
    ELSE LET z_scores == ZScores(frame.x, RollingMean(frame.x, w),
                                 RollingStd(frame.x, w))
         IN  [dtype |-> "bool", raised |-> FALSE,
              values |-> [idx \in 1..frame.rows |->
                             AbsGreaterThreshold(z_scores[idx], t)]]

\* idx of the model's 30-value series that carries the spike
SpikeSeries(c, d, k) == [idx \in 1..SpikeLen |-> IF idx = k THEN d ELSE c]

RECURSIVE SeqsUpTo(_, _)
SeqsUpTo(S, n) ==
    IF n = 0 THEN {<<>>}
    ELSE LET shorter == SeqsUpTo(S, n - 1)
         IN  shorter \cup { Append(q, v) : q \in { r \in shorter : Len(r) = n - 1 }, v \in S }

InitAnomaly ==
    /\ \/ /\ \E x \in SeqsUpTo(SeriesValues, MaxLen) :
               df = [rows |-> Len(x), has_column |-> TRUE, numeric |-> TRUE, x |-> x]
          /\ window \in Windows
          /\ threshold \in Thresholds
       \/ /\ \E n \in 0..MaxLen, c \in BOOLEAN :
               df = [rows |-> n, has_column |-> c, numeric |-> FALSE, x |-> <<>>]
          /\ ~(df.rows = 0 /\ df.has_column)
          /\ window = DefaultWindow
          /\ threshold = DefaultThreshold
       \/ /\ \E c \in FlatValues, d \in SpikeValues, k \in 1..SpikeLen :
               df = [rows |-> SpikeLen, has_column |-> TRUE, numeric |-> TRUE,
                     x |-> SpikeSeries(c, d, k)]
          /\ window = DefaultWindow
          /\ threshold = DefaultThreshold
    /\ anomalies = [dtype |-> "none", raised |-> FALSE, values |-> <<>>]
    /\ caught = FALSE
    /\ anomaly_points = <<>>
    /\ calls = 0
    /\ apc = "call"

\* a call of detect_anomalies(df, column, window, threshold); the caller
\* may call again on the same frame (historical_tab calls it once per
\* plotted column of resampled_data)
DetectAnomalies ==
    /\ apc \in {"call", "returned"}
    /\ calls < MaxCalls
    /\ anomalies' = detect_anomalies(df, window, threshold)
    /\ caught' = anomalies'.raised
    /\ df' = FrameAfterDetect(df)
    /\ calls' = calls + 1
    /\ apc' = "returned"
    /\ UNCHANGED <<window, threshold, anomaly_points>>

\* historical_tab: anomaly_points = resampled_data[anomalies]; a mask that
\* holds NaN is no boolean mask and the selection raises
HistoricalTab ==
    /\ apc = "returned"
    /\ IF \E idx \in 1..Len(anomalies.values) : anomalies.values[idx] = "NaN"
       THEN /\ apc' = "raised"
            /\ UNCHANGED anomaly_points
       ELSE /\ apc' = "plotted"
            /\ anomaly_points' =
                 SelectSeq([idx \in 1..Len(anomalies.values) |-> idx],
                           LAMBDA idx : anomalies.values[idx] = "True")
    /\ UNCHANGED <<df, window, threshold, anomalies, caught, calls>>

(***************************************************************************)
(* FirebaseManager: get_historical_readings, _calculate_usage_for_period,  *)
(* get_hourly_usage and get_daily_usage                                    *)
(*                                                                         *)
(* A stored reading is [has_timestamp, timestamp, has_total_ml, total_ml,  *)
(* has_total_volume, total_volume]; an absent field has has_... = FALSE.   *)
(* The three REST requests of get_historical_readings answer               *)
(* responses[1..3], each [status, data] with data the values of the JSON   *)
(* object in the order the response lists them.                            *)
(***************************************************************************)
\* most readings one response holds
MaxFetched == 3
\* timestamps (seconds) and total_ml counters of the stored readings: the
\* gaps are 120 s, 121 s and 1 s
Timestamps == {100, 220, 221}
TotalMls == {0, 1000, 2000}

\* values of random.uniform(0.9, 1.1) and random.uniform(0.8, 1.2), in
\* hundredths
DailyUniform == {90, 110}
HourlyUniform == {80, 120}

\* values of datetime.now().timestamp() when get_connection_logs runs
Nows == {340, 342}

\* (start_timestamp, end_timestamp) given to the demo branch of
\* get_historical_readings
DemoRanges == {<<100, 99>>, <<100, 100>>, <<100, 1000>>, <<100, 1900>>}

\* values of random.randint(5, 15) and of the seconds before now drawn
\* for an event by the demo branch of get_connection_logs
DemoEventCounts == {5, 6}
DemoEventOffsets == {10, 20}

VARIABLES
    demo_mode,   \* FirebaseManager.demo_mode
    responses,   \* what the requests to the three paths answer
    method,      \* the method called
    fetched,     \* the list get_historical_readings returned
    usage,       \* the value returned, 1e-4 litre
    frame,       \* rows of the frame get_historical_data returned
    logs,        \* the list get_connection_logs returned
    now,         \* datetime.now().timestamp() seen by get_connection_logs
    upc          \* "call" or "returned"

periodVars == <<demo_mode, responses, method, fetched, usage, frame, logs,
                now, upc>>

StoredReadings ==
    { [has_timestamp |-> ht, timestamp |-> IF ht THEN ts ELSE 0,
       has_total_ml |-> hm, total_ml |-> IF hm THEN ml ELSE 0,
       has_total_volume |-> FALSE, total_volume |-> 0] :
         ht \in BOOLEAN, ts \in Timestamps, hm \in BOOLEAN, ml \in TotalMls }

\* a sort key that ignores the timestamp
ConstantKey(r) == 0

\* a sort key that puts a reading without timestamp after the others
TimestampKeyLast(r) == IF r.has_timestamp THEN r.timestamp ELSE 1000000

\* x.get("timestamp", 0)
TimestampKey(r) == IF r.has_timestamp THEN r.timestamp ELSE 0

\* list.sort(key=...): stable, ascending
RECURSIVE InsertByKey(_, _)
InsertByKey(sorted, r) ==
    IF sorted = <<>> THEN <<r>>
    ELSE IF TimestampKey(sorted[Len(sorted)]) <= TimestampKey(r)
         THEN Append(sorted, r)
         ELSE Append(InsertByKey(SubSeq(sorted, 1, Len(sorted) - 1), r),
                     sorted[Len(sorted)])

RECURSIVE SortByTimestamp(_)
SortByTimestamp(rs) ==
    IF rs = <<>> THEN <<>>
    ELSE InsertByKey(SortByTimestamp(SubSeq(rs, 1, Len(rs) - 1)), rs[Len(rs)])

\* reading['total_volume'] = reading['total_ml'] / 1000.0 (litres, kept in
\* 1e-4 litre)
KeepTotalMl(r) == r
ConvertTotalMl(r) ==
    IF r.has_total_ml
    THEN [r EXCEPT !.has_total_volume = TRUE, !.total_volume = r.total_ml * 10]
    ELSE r

\* the loop over possible_paths: the first path that answers 200 with a
\* non-empty object supplies the readings
RECURSIVE PathReadings(_, _)
PathReadings(resp, path) ==
    IF path > Len(resp) THEN <<>>
    ELSE IF resp[path].status = "ok" /\ resp[path].data # <<>>
         THEN resp[path].data
         ELSE PathReadings(resp, path + 1)

\* get_historical_readings, live mode
get_historical_readings(resp) ==
    LET found == PathReadings(resp, 1)
        sorted == SortByTimestamp(found)
    IN  [k \in 1..Len(sorted) |-> ConvertTotalMl(sorted[k])]

\* reading.get('total_volume', 0)
TotalVolume(r) == IF r.has_total_volume THEN r.total_volume ELSE 0

\* the difference of the two counters, not clamped at 0
calculate_usage_unclamped(rs) ==
    IF rs = <<>> THEN 0
    ELSE LET sorted == SortByTimestamp(rs)
         IN  IF Len(sorted) < 2 THEN 0
             ELSE TotalVolume(sorted[Len(sorted)]) - TotalVolume(sorted[1])

\* _calculate_usage_for_period on the list fetched for the period
calculate_usage_for_period(rs) ==
    IF rs = <<>> THEN 0
    ELSE LET sorted == SortByTimestamp(rs)
         IN  IF Len(sorted) < 2 THEN 0
             ELSE Max(0, TotalVolume(sorted[Len(sorted)]) - TotalVolume(sorted[1]))

\* day_factors of get_daily_usage and hour_factors of get_hourly_usage, in
\* tenths
day_factors ==
    [d \in 0..6 |->
        CASE d = 0 -> 10 [] d = 1 -> 9 [] d = 2 -> 11 [] d = 3 -> 10
          [] d = 4 -> 12 [] d = 5 -> 15 [] d = 6 -> 13]

hour_factors ==
    [h \in 0..23 |->
        CASE h = 0 -> 2 [] h = 1 -> 1 [] h = 2 -> 1 [] h = 3 -> 1
          [] h = 4 -> 2 [] h = 5 -> 5 [] h = 6 -> 12 [] h = 7 -> 15
          [] h = 8 -> 12 [] h = 9 -> 8 [] h = 10 -> 7 [] h = 11 -> 8
          [] h = 12 -> 10 [] h = 13 -> 9 [] h = 14 -> 7 [] h = 15 -> 6
          [] h = 16 -> 7 [] h = 17 -> 10 [] h = 18 -> 15 [] h = 19 -> 12
          [] h = 20 -> 10 [] h = 21 -> 8 [] h = 22 -> 5 [] h = 23 -> 3]

EmptyResponses == [path \in 1..3 |-> [status |-> "ok", data |-> <<>>]]

InitPeriod ==
    /\ demo_mode \in BOOLEAN
    /\ IF demo_mode
       THEN responses = EmptyResponses
       ELSE \E data \in SeqsUpTo(StoredReadings, MaxFetched), p \in 1..3,
               before \in {"ok", "error"} :
              responses = [path \in 1..3 |->
                  IF path < p THEN [status |-> before, data |-> <<>>]
                  ELSE IF path = p THEN [status |-> "ok", data |-> data]
                  ELSE [status |-> "ok", data |-> <<>>]]
    /\ method = "none"
    /\ fetched = <<>>
    /\ usage = 0
    /\ frame = <<>>
    /\ logs = <<>>
    /\ now = 0
    /\ upc = "call"

\* the stored readings of the history specification: a reading carries the
\* counter total_ml = 1000 or none
HistoryReadings == { r \in StoredReadings : r.has_total_ml => r.total_ml = 1000 }

InitHistory ==
    /\ demo_mode \in BOOLEAN
    /\ IF demo_mode
       THEN responses = EmptyResponses
       ELSE \E data \in SeqsUpTo(HistoryReadings, MaxFetched), p \in 1..3,
               before \in {"ok", "error"} :
              responses = [path \in 1..3 |->
                  IF path < p THEN [status |-> before, data |-> <<>>]
                  ELSE IF path = p THEN [status |-> "ok", data |-> data]
                  ELSE [status |-> "ok", data |-> <<>>]]
    /\ method = "none"
    /\ fetched = <<>>
    /\ usage = 0
    /\ frame = <<>>
    /\ logs = <<>>
    /\ now = 0
    /\ upc = "call"

\* get_daily_usage
GetDailyUsage ==
    /\ upc = "call"
    /\ method' = "get_daily_usage"
    /\ IF demo_mode
       THEN /\ \E weekday \in 0..6, u \in DailyUniform :
                 usage' = 240 * day_factors[weekday] * u * 10
            /\ UNCHANGED fetched
       ELSE /\ fetched' = get_historical_readings(responses)
            /\ usage' = calculate_usage_for_period(fetched')
    /\ upc' = "returned"
    /\ UNCHANGED <<demo_mode, responses, frame, logs, now>>

\* get_hourly_usage
GetHourlyUsage ==
    /\ upc = "call"
    /\ method' = "get_hourly_usage"
    /\ IF demo_mode
       THEN /\ \E hour \in 0..23, u \in HourlyUniform :
                 usage' = 25 * hour_factors[hour] * u * 10
            /\ UNCHANGED fetched
       ELSE /\ fetched' = get_historical_readings(responses)
            /\ usage' = calculate_usage_for_period(fetched')
    /\ upc' = "returned"
    /\ UNCHANGED <<demo_mode, responses, frame, logs, now>>

\* get_historical_readings, demo mode: hourly readings for a range of more
\* than 7 days, one every 15 minutes otherwise, while current <= end_time
DemoInterval(start_timestamp, end_timestamp) ==
    IF (end_timestamp - start_timestamp) \div 86400 > 7 THEN 3600 ELSE 900

DemoHistoricalReadings(start_timestamp, end_timestamp) ==
    LET step == DemoInterval(start_timestamp, end_timestamp)
        n == IF end_timestamp < start_timestamp THEN 0
             ELSE (end_timestamp - start_timestamp) \div step + 1
    IN  [k \in 1..n |->
            [has_timestamp |-> TRUE,
             timestamp |-> start_timestamp + (k - 1) * step,
             has_total_ml |-> FALSE, total_ml |-> 0,
             has_total_volume |-> FALSE, total_volume |-> 0]]

\* 'timestamp' in df.columns: some reading carries the field
HasTimestampColumn(rs) == \E k \in 1..Len(rs) : rs[k].has_timestamp

\* the orders in which n rows can be arranged
AllIndexOrders ==
    [n \in 0..MaxFetched |->
        { q \in [1..n -> 1..n] : \A a, b \in 1..n : a # b => q[a] # q[b] }]

IndexOrders(n) == AllIndexOrders[n]

\* row a may stand before row b after sort_values('timestamp'): ascending,
\* rows whose timestamp is NaN last
RowBefore(a, b) ==
    IF a.has_timestamp
    THEN ~b.has_timestamp \/ a.timestamp <= b.timestamp
    ELSE ~b.has_timestamp

\* df.sort_values('timestamp'): the default sort is not stable, the order
\* of rows with equal timestamps is any
sort_values(rs) ==
    { [k \in 1..Len(rs) |-> rs[q[k]]] :
        q \in { o \in IndexOrders(Len(rs)) :
                  \A j, k \in 1..Len(rs) :
                     j < k => RowBefore(rs[o[j]], rs[o[k]]) } }

\* the frames get_historical_data can return for the list of readings
get_historical_data(rs) ==
    IF rs = <<>> THEN {<<>>}
    ELSE IF HasTimestampColumn(rs) THEN sort_values(rs)
    ELSE {rs}

GetHistoricalData ==
    /\ upc = "call"
    /\ method' = "get_historical_data"
    /\ IF demo_mode
       THEN \E range \in DemoRanges :
              fetched' = DemoHistoricalReadings(range[1], range[2])
       ELSE fetched' = get_historical_readings(responses)
    /\ frame' \in get_historical_data(fetched')
    /\ upc' = "returned"
    /\ UNCHANGED <<demo_mode, responses, usage, logs, now>>

ConnectEvent(t) == [timestamp |-> t, event |-> "connect"]
DisconnectEvent(t) == [timestamp |-> t, event |-> "disconnect"]

\* a disconnect placed three minutes after the last reading
DisconnectLate(prev_time) == prev_time + 180

\* "timestamp": prev_time + 60, one minute after the last reading
DisconnectTime(prev_time) == prev_time + 60

\* a gap of exactly two minutes counted as a disconnection
IsGapInclusive(prev_time, curr_time) == curr_time - prev_time >= 120

\* if curr_time - prev_time > 120
IsGap(prev_time, curr_time) == curr_time - prev_time > 120

\* for i in range(1, len(readings)): a gap of more than 120 seconds adds a
\* disconnect and a reconnect
RECURSIVE GapEvents(_, _)
GapEvents(rs, k) ==
    IF k > Len(rs) THEN <<>>
    ELSE LET prev_time == TimestampKey(rs[k - 1])
             curr_time == TimestampKey(rs[k])
         IN  (IF IsGap(prev_time, curr_time)
              THEN <<DisconnectEvent(DisconnectTime(prev_time)),
                     ConnectEvent(curr_time - 1)>>
              ELSE <<>>) \o GapEvents(rs, k + 1)

\* logs.sort(key=timestamp): stable, ascending
RECURSIVE InsertLog(_, _)
InsertLog(sorted, e) ==
    IF sorted = <<>> THEN <<e>>
    ELSE IF sorted[Len(sorted)].timestamp <= e.timestamp
         THEN Append(sorted, e)
         ELSE Append(InsertLog(SubSeq(sorted, 1, Len(sorted) - 1), e),
                     sorted[Len(sorted)])

RECURSIVE SortLogs(_)
SortLogs(es) ==
    IF es = <<>> THEN <<>>
    ELSE InsertLog(SortLogs(SubSeq(es, 1, Len(es) - 1)), es[Len(es)])

\* get_connection_logs, live mode, on the readings fetched; a first reading
\* without timestamp makes `first_reading.get("timestamp") - 1` raise, and
\* the except branch returns []
connection_logs(rs, t_now) ==
    IF rs = <<>> THEN <<>>
    ELSE LET sorted == SortByTimestamp(rs)
             last_time == TimestampKey(sorted[Len(sorted)])
         IN  IF ~sorted[1].has_timestamp THEN <<>>
             ELSE SortLogs(<<ConnectEvent(sorted[1].timestamp - 1)>>
                           \o GapEvents(sorted, 2)
                           \o (IF t_now - last_time > 120
                               THEN <<DisconnectEvent(DisconnectTime(last_time))>>
                               ELSE <<>>))

GetConnectionLogs ==
    /\ upc = "call"
    /\ method' = "get_connection_logs"
    /\ \E t_now \in Nows :
         /\ now' = t_now
         /\ IF demo_mode
            THEN /\ \E n \in DemoEventCounts :
                      \E ev \in [1..n -> DemoEventOffsets \X {"connect", "disconnect"}] :
                         logs' = SortLogs([k \in 1..n |->
                                     [timestamp |-> t_now - ev[k][1],
                                      event |-> ev[k][2]]])
                 /\ UNCHANGED fetched
            ELSE /\ fetched' = get_historical_readings(responses)
                 /\ logs' = connection_logs(fetched', t_now)
    /\ upc' = "returned"
    /\ UNCHANGED <<demo_mode, responses, usage, frame>>

(***************************************************************************)
(* Device status: FirebaseManager.get_device_status and                    *)
(* ESPManager.get_device_status                                            *)
(***************************************************************************)
\* the latest reading is at most this many seconds old
MaxAge == 240
\* time.time() / datetime.now() when the status is asked for, in seconds
DeviceClock == 1000

VARIABLES
    dev_manager,    \* the ESPManager's firebase_manager: "none", "demo", "live"
    latest_reading, \* what get_latest_reading returns in live mode
    clock,          \* the current time, seconds
    fb_status,      \* result of FirebaseManager.get_device_status
    esp_status,     \* result of ESPManager.get_device_status
    dpc             \* "call", "firebase" or "esp"

deviceVars == <<dev_manager, latest_reading, clock, fb_status, esp_status, dpc>>

NoStatus == [present |-> FALSE, connected |-> FALSE, last_update |-> 0]
NoReading == [present |-> FALSE, has_timestamp |-> FALSE, timestamp |-> 0]

\* FirebaseManager.get_device_status: connected unless the last update is
\* more than 120 seconds old
FirebaseDeviceStatus(manager, reading, t_now) ==
    IF manager = "demo"
    THEN [present |-> TRUE, connected |-> TRUE, last_update |-> t_now]
    ELSE IF ~reading.present THEN NoStatus
    ELSE LET last_update == IF reading.has_timestamp THEN reading.timestamp
                            ELSE t_now
             time_diff == t_now - last_update
         IN  [present |-> TRUE, connected |-> ~(time_diff > 120),
              last_update |-> last_update]

\* self.connection_status["connected"] = time_diff < 120
HeardWithin(time_diff) == time_diff < 120

InitDevice ==
    /\ dev_manager \in {"none", "demo", "live"}
    /\ clock = DeviceClock
    /\ IF dev_manager = "live"
       THEN \/ latest_reading = NoReading
            \/ latest_reading = [present |-> TRUE, has_timestamp |-> FALSE,
                                 timestamp |-> 0]
            \/ \E age \in 0..MaxAge :
                 latest_reading = [present |-> TRUE, has_timestamp |-> TRUE,
                                   timestamp |-> clock - age]
       ELSE latest_reading = NoReading
    /\ fb_status = NoStatus
    /\ esp_status = NoStatus
    /\ dpc = "call"

FirebaseGetDeviceStatus ==
    /\ dpc = "call"
    /\ dev_manager # "none"
    /\ fb_status' = FirebaseDeviceStatus(dev_manager, latest_reading, clock)
    /\ dpc' = "firebase"
    /\ UNCHANGED <<dev_manager, latest_reading, clock, esp_status>>

\* ESPManager.get_device_status: the status of the firebase manager with
\* its own connected value; generate_demo_device_status (a random connected
\* value) when there is no manager or no status
ESPGetDeviceStatus ==
    /\ dpc = (IF dev_manager = "none" THEN "call" ELSE "firebase")
    /\ LET device_data == IF dev_manager = "none" THEN NoStatus
                          ELSE FirebaseDeviceStatus(dev_manager, latest_reading, clock)
       IN  IF device_data.present
           THEN esp_status' =
                  [present |-> TRUE,
                   connected |-> HeardWithin(clock - device_data.last_update),
                   last_update |-> device_data.last_update]
           ELSE \E connected \in BOOLEAN, minutes \in {5, 59} :
                  esp_status' =
                    [present |-> TRUE, connected |-> connected,
                     last_update |-> IF connected THEN clock
                                     ELSE clock - 60 * minutes]
    /\ dpc' = "esp"
    /\ UNCHANGED <<dev_manager, latest_reading, clock, fb_status>>

(***************************************************************************)
(* utils.check_alerts                                                      *)
(* Pressures, flow rates and usages are in tenths of their unit.           *)
(***************************************************************************)
\* values of the sensor fields and of the thresholds the model draws; the
\* form accepts pressure_high in 1.0 .. 10.0 and pressure_low in 0.1 .. 5.0
Pressures == {5, 30, 60, 61}
PressureHighs == {10, 60}
PressureLows == {10, 50}
FlowRates == {200, 205}
FlowHighs == {200}
DailyUsages == {5000, 5001}
DailyUsageHighs == {5000}

VARIABLES
    alert_data,        \* the data argument of check_alerts
    alert_thresholds,  \* the thresholds argument
    alerts,            \* the list returned
    alpc               \* "call" or "returned"

alertVars == <<alert_data, alert_thresholds, alerts, alpc>>

\* a dict of sensor data with the fields that are present, or None
SensorData ==
    { [is_none |-> n,
       has_pressure |-> hp, pressure |-> IF hp THEN p ELSE 0,
       has_flow_rate |-> hf, flow_rate |-> IF hf THEN f ELSE 0,
       has_daily_usage |-> hd, daily_usage |-> IF hd THEN d ELSE 0,
       has_other |-> o] :
         n \in BOOLEAN, hp \in BOOLEAN, p \in Pressures, hf \in BOOLEAN,
         f \in FlowRates, hd \in BOOLEAN, d \in DailyUsages, o \in BOOLEAN }

NoneData ==
    [is_none |-> TRUE, has_pressure |-> FALSE, pressure |-> 0,
     has_flow_rate |-> FALSE, flow_rate |-> 0,
     has_daily_usage |-> FALSE, daily_usage |-> 0, has_other |-> FALSE]

\* a dict of thresholds with the keys that are present, or None
ThresholdDicts ==
    { [is_none |-> n,
       has_pressure_high |-> hh, pressure_high |-> IF hh THEN ph ELSE 0,
       has_pressure_low |-> hl, pressure_low |-> IF hl THEN pl ELSE 0,
       has_flow_high |-> hf, flow_high |-> IF hf THEN fh ELSE 0,
       has_daily_usage_high |-> hd, daily_usage_high |-> IF hd THEN dh ELSE 0] :
         n \in BOOLEAN, hh \in BOOLEAN, ph \in PressureHighs, hl \in BOOLEAN,
         pl \in PressureLows, hf \in BOOLEAN, fh \in FlowHighs,
         hd \in BOOLEAN, dh \in DailyUsageHighs }

NoneThresholds ==
    [is_none |-> TRUE, has_pressure_high |-> FALSE, pressure_high |-> 0,
     has_pressure_low |-> FALSE, pressure_low |-> 0,
     has_flow_high |-> FALSE, flow_high |-> 0,
     has_daily_usage_high |-> FALSE, daily_usage_high |-> 0]

\* `not data`: None or a dict without keys
EmptyData(data) ==
    \/ data.is_none
    \/ ~(data.has_pressure \/ data.has_flow_rate \/ data.has_daily_usage
           \/ data.has_other)

\* `not thresholds`
EmptyThresholds(thresholds) ==
    \/ thresholds.is_none
    \/ ~(thresholds.has_pressure_high \/ thresholds.has_pressure_low
           \/ thresholds.has_flow_high \/ thresholds.has_daily_usage_high)

\* an alert for a value that has reached its threshold
ReachesThreshold(value, limit) == value >= limit

\* if pressure > threshold, if flow_rate > threshold, if daily_usage >
\* threshold
ExceedsThreshold(value, limit) == value > limit

\* if pressure < threshold
BelowThreshold(value, limit) == value < limit

Alert(message, severity) == [message |-> message, severity |-> severity]

check_alerts(data, thresholds) ==
    IF EmptyData(data) \/ EmptyThresholds(thresholds) THEN <<>>
    ELSE (IF /\ data.has_pressure /\ thresholds.has_pressure_high
             /\ ExceedsThreshold(data.pressure, thresholds.pressure_high)
          THEN <<Alert("High pressure detected", "high")>> ELSE <<>>)
         \o
         (IF /\ data.has_pressure /\ thresholds.has_pressure_low
             /\ BelowThreshold(data.pressure, thresholds.pressure_low)
          THEN <<Alert("Low pressure detected", "high")>> ELSE <<>>)
         \o
         (IF /\ data.has_flow_rate /\ thresholds.has_flow_high
             /\ ExceedsThreshold(data.flow_rate, thresholds.flow_high)
          THEN <<Alert("High flow rate detected", "medium")>> ELSE <<>>)
         \o
         (IF /\ data.has_daily_usage /\ thresholds.has_daily_usage_high
             /\ ExceedsThreshold(data.daily_usage, thresholds.daily_usage_high)
          THEN <<Alert("Daily water usage exceeded", "medium")>> ELSE <<>>)

InitAlerts ==
    /\ alert_data \in { d \in SensorData : d.is_none => d = NoneData }
    /\ alert_thresholds \in { t \in ThresholdDicts : t.is_none => t = NoneThresholds }
    /\ alerts = <<>>
    /\ alpc = "call"

CheckAlerts ==
    /\ alpc = "call"
    /\ alerts' = check_alerts(alert_data, alert_thresholds)
    /\ alpc' = "returned"
    /\ UNCHANGED <<alert_data, alert_thresholds>>

IdleAlerts ==
    /\ alert_data = NoneData
    /\ alert_thresholds = NoneThresholds
    /\ alerts = <<>>
    /\ alpc = "idle"

(***************************************************************************)
(* The Streamlit session of app.py (and init_firebase of simple_app.py).   *)
(* Every action is one run of the script; st.rerun() ends a run and is     *)
(* followed by a run with the default choice of the radio that appears.    *)
(***************************************************************************)
\* what the user types into the login form: '@' in email, whether the
\* regular expression of validate_email matches, len(password)
LoginInputs ==
    { [email |-> "demo@example.com", has_at |-> TRUE, valid_email |-> TRUE,
       password |-> "Demo1234", password_len |-> 8],
      [email |-> "user@example.com", has_at |-> TRUE, valid_email |-> TRUE,
       password |-> "Secret12", password_len |-> 8],
      [email |-> "user@example.com", has_at |-> TRUE, valid_email |-> TRUE,
       password |-> "abc", password_len |-> 3],
      [email |-> "user-example.com", has_at |-> FALSE, valid_email |-> FALSE,
       password |-> "Demo1234", password_len |-> 8],
      [email |-> "", has_at |-> FALSE, valid_email |-> FALSE,
       password |-> "", password_len |-> 0] }

\* the default thresholds of settings.py / dashboard.py / get_user_settings
\* and other values the form accepts
DefaultThresholds ==
    [is_none |-> FALSE,
     has_pressure_high |-> TRUE, pressure_high |-> 60,
     has_pressure_low |-> TRUE, pressure_low |-> 10,
     has_flow_high |-> TRUE, flow_high |-> 200,
     has_daily_usage_high |-> TRUE, daily_usage_high |-> 5000]

OtherThresholds ==
    [is_none |-> FALSE,
     has_pressure_high |-> TRUE, pressure_high |-> 30,
     has_pressure_low |-> TRUE, pressure_low |-> 10,
     has_flow_high |-> TRUE, flow_high |-> 80,
     has_daily_usage_high |-> TRUE, daily_usage_high |-> 2000]

FormThresholds == {DefaultThresholds, OtherThresholds}

\* {}: user_settings.get('alert_thresholds', {}) if user_settings else {}
NoThresholds == [NoneThresholds EXCEPT !.is_none = FALSE]

VARIABLES
    app,                  \* "app.py" or "simple_app.py"
    creds,                \* which credentials the environment holds
    firebase_initialized, \* st.session_state.firebase_initialized
    session_demo,         \* st.session_state.demo_mode: "unset", "True", "False"
    manager_demo,         \* firebase_manager.demo_mode: "none", "True", "False"
    logged_in,            \* st.session_state.logged_in
    user_id,              \* st.session_state.user_id, "None" for None
    user_email,           \* st.session_state.user_email, "None" for None
    current_view,         \* st.session_state.current_view
    session_settings,     \* st.session_state.user_settings
    form_state,           \* the widget values of threshold_form
    invoked,              \* the page function the last run called
    run_logged_in,        \* logged_in at the start of the last run
    rerun,                \* the last run ended in st.rerun()
    report,               \* message of the threshold form: "none", "success", "error"
    last_saved,           \* thresholds of the last save that reported success
    shown,                \* thresholds the settings page showed last
    used,                 \* thresholds of the last check_alerts of display_dashboard
    dashboard_alerts      \* alerts of the last check_alerts of display_dashboard

appVars == <<app, creds, firebase_initialized, session_demo, manager_demo,
             logged_in, user_id, user_email, current_view, session_settings,
             form_state, invoked, run_logged_in, rerun, report, last_saved,
             shown, used, dashboard_alerts>>

Unset == [set |-> FALSE, th |-> DefaultThresholds]
Holding(thresholds) == [set |-> TRUE, th |-> thresholds]

Credentials ==
    [api_key : BOOLEAN, auth_domain : BOOLEAN, database_url : BOOLEAN,
     database_secret : BOOLEAN]

\* FirebaseManager.__init__: demo unless the database URL and the database
\* secret are both there
ManagerDemo(c) == IF ~(c.database_url /\ c.database_secret) THEN "True" ELSE "False"

\* init_firebase of app.py: the session flag is set, to True, when the API
\* key, the auth domain or the database URL is missing
SessionDemo(c, flag) ==
    IF ~(c.api_key /\ c.auth_domain /\ c.database_url) /\ flag = "unset"
    THEN "True" ELSE flag

\* 'demo_mode' in st.session_state and st.session_state.demo_mode
InDemoSession(flag) == flag = "True"

\* FirebaseManager.login_user: the localId of the user, "None" for None
login_user(manager, input) ==
    IF manager = "True"
    THEN IF input.has_at /\ input.password_len >= 6
         THEN "demo-user-id" ELSE "None"
    ELSE "None"

\* login_page on submit: the user id the session gets, "None" when the
\* login is refused
LoginResult(flag, manager, input) ==
    IF input.email = "" \/ input.password = "" THEN "None"
    ELSE IF ~input.valid_email THEN "None"
    ELSE IF InDemoSession(flag)
         THEN IF input.email = "demo@example.com" /\ input.password = "Demo1234"
              THEN "demo_user_id" ELSE "None"
         ELSE login_user(manager, input)

SessionFields ==
    [logged_in |-> logged_in, user_id |-> user_id, user_email |-> user_email,
     current_view |-> current_view]

\* a logout that leaves the e-mail address in the session
logout_keep_email(session) ==
    [session EXCEPT !.logged_in = FALSE, !.user_id = "None",
                    !.current_view = "login"]

\* auth.logout_user
logout_user(session) ==
    [session EXCEPT !.logged_in = FALSE, !.user_id = "None",
                    !.user_email = "None", !.current_view = "login"]

\* a script that offers the navigation to everybody
ShowsNavigationAlways(is_logged_in) == TRUE

\* main: `if not st.session_state.logged_in:` shows the authentication
\* radio, else the navigation radio
ShowsNavigation(is_logged_in) == is_logged_in

\* FirebaseManager.get_user_settings: the alert thresholds of the settings
\* returned, None in live mode
get_user_settings(manager) ==
    IF manager = "True" THEN Holding(DefaultThresholds) ELSE Unset

\* data_processing.get_real_time_data: what it can return; the readings of
\* get_latest_readings of a demo manager with the usages added, None from
\* a live manager
get_real_time_data(manager) ==
    IF manager = "True"
    THEN { [is_none |-> FALSE, has_pressure |-> TRUE, pressure |-> p,
            has_flow_rate |-> TRUE, flow_rate |-> f,
            has_daily_usage |-> TRUE, daily_usage |-> d, has_other |-> TRUE] :
              p \in {29, 35}, f \in {75, 95}, d \in {1944, 3960} }
    ELSE {NoneData}

InitApp ==
    /\ app \in {"app.py", "simple_app.py"}
    /\ creds \in Credentials
    /\ firebase_initialized = FALSE
    /\ session_demo = "unset"
    /\ manager_demo = "none"
    /\ logged_in = FALSE
    /\ user_id = "None"
    /\ user_email = "None"
    /\ current_view = "login"
    /\ session_settings = Unset
    /\ form_state = Unset
    /\ invoked = "none"
    /\ run_logged_in = FALSE
    /\ rerun = FALSE
    /\ report = "none"
    /\ last_saved = Unset
    /\ shown = Unset
    /\ used = Unset
    /\ dashboard_alerts = <<>>

\* main begins with init_firebase(), which does nothing once
\* firebase_initialized is set
InitFirebase ==
    /\ firebase_initialized' = TRUE
    /\ session_demo' = IF firebase_initialized THEN session_demo
                       ELSE SessionDemo(creds, session_demo)
    /\ manager_demo' = IF firebase_initialized THEN manager_demo
                       ELSE ManagerDemo(creds)
    /\ UNCHANGED <<app, creds>>

\* what every run of app.py does besides its page
StartRun(page) ==
    /\ app = "app.py"
    /\ InitFirebase
    /\ run_logged_in' = logged_in
    /\ invoked' = page

\* the flags as the page of this run sees them, after init_firebase
SessionDemoNow ==
    IF firebase_initialized THEN session_demo ELSE SessionDemo(creds, session_demo)
ManagerDemoNow ==
    IF firebase_initialized THEN manager_demo ELSE ManagerDemo(creds)

\* a run that shows login_page; a submitted pair that is accepted logs the
\* user in and calls st.rerun()
RunLoginPage ==
    /\ ~ShowsNavigation(logged_in)
    /\ StartRun("login_page")
    /\ \E login_button \in BOOLEAN, input \in LoginInputs :
         /\ rerun => ~login_button
         /\ LET id == IF login_button
                      THEN LoginResult(SessionDemoNow, ManagerDemoNow, input)
                      ELSE "None"
            IN  IF id # "None"
                THEN /\ logged_in' = TRUE
                     /\ user_id' = id
                     /\ user_email' = input.email
                     /\ current_view' = "dashboard"
                     /\ rerun' = TRUE
                ELSE /\ UNCHANGED <<logged_in, user_id, user_email, current_view>>
                     /\ rerun' = FALSE
    /\ form_state' = Unset
    /\ report' = "none"
    /\ UNCHANGED <<session_settings, last_saved, shown, used, dashboard_alerts>>

\* signup_page writes nothing into the session, whatever is submitted
RunSignupPage ==
    /\ ~ShowsNavigation(logged_in)
    /\ ~rerun
    /\ StartRun("signup_page")
    /\ form_state' = Unset
    /\ report' = "none"
    /\ rerun' = FALSE
    /\ UNCHANGED <<logged_in, user_id, user_email, current_view,
                   session_settings, last_saved, shown, used,
                   dashboard_alerts>>

\* reset_password_page writes nothing into the session either
RunResetPasswordPage ==
    /\ ~ShowsNavigation(logged_in)
    /\ ~rerun
    /\ StartRun("reset_password_page")
    /\ form_state' = Unset
    /\ report' = "none"
    /\ rerun' = FALSE
    /\ UNCHANGED <<logged_in, user_id, user_email, current_view,
                   session_settings, last_saved, shown, used,
                   dashboard_alerts>>

\* display_dashboard: demo data in a demo session; otherwise check_alerts
\* on the real-time data with the thresholds of get_user_settings
RunDashboard ==
    /\ ShowsNavigation(logged_in)
    /\ StartRun("display_dashboard")
    /\ IF InDemoSession(SessionDemoNow)
       THEN /\ used' = Unset
            /\ dashboard_alerts' = <<>>
       ELSE LET user_settings == get_user_settings(ManagerDemoNow)
                thresholds == IF user_id # "None"
                              THEN IF user_settings.set THEN user_settings.th
                                   ELSE NoThresholds
                              ELSE DefaultThresholds
            IN  \E real_time_data \in get_real_time_data(ManagerDemoNow) :
                  /\ used' = Holding(thresholds)
                  /\ dashboard_alerts' = check_alerts(real_time_data, thresholds)
    /\ form_state' = Unset
    /\ report' = "none"
    /\ rerun' = FALSE
    /\ UNCHANGED <<logged_in, user_id, user_email, current_view,
                   session_settings, last_saved, shown>>

\* display_settings with alert_thresholds_tab: the form shows the widget
\* values, which start from the thresholds of get_user_settings (or the
\* defaults) whenever the page was not shown in the run before
RunSettings ==
    /\ ShowsNavigation(logged_in)
    /\ ~rerun
    /\ StartRun("display_settings")
    /\ LET user_settings == IF user_id # "None"
                            THEN get_user_settings(ManagerDemoNow) ELSE Unset
           thresholds == IF user_settings.set THEN user_settings.th
                         ELSE DefaultThresholds
           widget == IF form_state.set THEN form_state.th ELSE thresholds
       IN  \E save_button \in BOOLEAN, entered \in FormThresholds :
             LET values == IF save_button THEN entered ELSE widget
             IN  /\ shown' = Holding(values)
                 /\ form_state' = Holding(values)
                 /\ IF ~save_button
                    THEN /\ report' = "none"
                         /\ UNCHANGED <<session_settings, last_saved>>
                    ELSE IF InDemoSession(SessionDemoNow)
                    THEN /\ report' = "success"
                         /\ session_settings' = Holding(values)
                         /\ last_saved' = Holding(values)
                    ELSE IF user_id # "None" /\ ManagerDemoNow = "True"
                    THEN \* save_user_settings prints and returns True
                         /\ report' = "success"
                         /\ last_saved' = Holding(values)
                         /\ UNCHANGED session_settings
                    ELSE \* NotImplementedError, or no user id
                         /\ report' = "error"
                         /\ UNCHANGED <<session_settings, last_saved>>
    /\ rerun' = FALSE
    /\ UNCHANGED <<logged_in, user_id, user_email, current_view, used,
                   dashboard_alerts>>

\* navigation "Logout": logout_user() and st.rerun()
RunLogout ==
    /\ ShowsNavigation(logged_in)
    /\ ~rerun
    /\ StartRun("logout_user")
    /\ LET session == logout_user(SessionFields)
       IN  /\ logged_in' = session.logged_in
           /\ user_id' = session.user_id
           /\ user_email' = session.user_email
           /\ current_view' = session.current_view
    /\ form_state' = Unset
    /\ report' = "none"
    /\ rerun' = TRUE
    /\ UNCHANGED <<session_settings, last_saved, shown, used, dashboard_alerts>>

\* init_firebase of simple_app.py: demo without database URL or secret;
\* with them the session is live only if get_device_status answers
SimpleAppInitFirebase ==
    /\ app = "simple_app.py"
    /\ ~firebase_initialized
    /\ firebase_initialized' = TRUE
    /\ manager_demo' = ManagerDemo(creds)
    /\ IF ~creds.database_url \/ ~creds.database_secret
       THEN session_demo' = "True"
       ELSE \E test_data_found \in BOOLEAN :
              session_demo' = IF test_data_found THEN "False" ELSE "True"
    /\ invoked' = "simple_app"
    /\ UNCHANGED <<app, creds, logged_in, user_id, user_email, current_view,
                   session_settings, form_state, run_logged_in, rerun, report,
                   last_saved, shown, used, dashboard_alerts>>

IdleApp ==
    /\ app = "none"
    /\ creds = [api_key |-> FALSE, auth_domain |-> FALSE,
                database_url |-> FALSE, database_secret |-> FALSE]
    /\ firebase_initialized = FALSE
    /\ session_demo = "unset"
    /\ manager_demo = "none"
    /\ logged_in = FALSE
    /\ user_id = "None"
    /\ user_email = "None"
    /\ current_view = "login"
    /\ session_settings = Unset
    /\ form_state = Unset
    /\ invoked = "none"
    /\ run_logged_in = FALSE
    /\ rerun = FALSE
    /\ report = "none"
    /\ last_saved = Unset
    /\ shown = Unset
    /\ used = Unset
    /\ dashboard_alerts = <<>>

\* the components of the dashboard front end
frontVars == <<deviceVars, alertVars, appVars>>

IdleDevice ==
    /\ dev_manager = "none"
    /\ latest_reading = NoReading
    /\ clock = 0
    /\ fb_status = NoStatus
    /\ esp_status = NoStatus
    /\ dpc = "idle"

IdleFront == IdleDevice /\ IdleAlerts /\ IdleApp

(***************************************************************************)
(* Specification of the usage accountants                                  *)
(***************************************************************************)
vars == <<usageVars, anomalyVars, periodVars, frontVars>>

IdleUsage ==
    /\ fn = "none"
    /\ num_readings = 0
    /\ interval = 0
    /\ current_time = 0
    /\ i = 0
    /\ hourly_usage = 0
    /\ daily_usage = 0
    /\ last_day = 0
    /\ last_hour = 0
    /\ volume = 0
    /\ readings = <<>>
    /\ batch_data = <<>>
    /\ pc = "idle"

IdleAnomaly ==
    /\ df = [rows |-> 0, has_column |-> FALSE, numeric |-> FALSE, x |-> <<>>]
    /\ window = 0
    /\ threshold = <<0, 1>>
    /\ anomalies = [dtype |-> "none", raised |-> FALSE, values |-> <<>>]
    /\ caught = FALSE
    /\ anomaly_points = <<>>
    /\ calls = 0
    /\ apc = "idle"

IdlePeriod ==
    /\ demo_mode = TRUE
    /\ responses = EmptyResponses
    /\ method = "none"
    /\ fetched = <<>>
    /\ usage = 0
    /\ frame = <<>>
    /\ logs = <<>>
    /\ now = 0
    /\ upc = "idle"

InitUsage == (InitSimulate \/ InitDemo) /\ IdleAnomaly /\ IdlePeriod /\ IdleFront

NextUsage ==
    \/ SimulateStep /\ UNCHANGED <<anomalyVars, periodVars, frontVars>>
    \/ SimulateReturn /\ UNCHANGED <<anomalyVars, periodVars, frontVars>>
    \/ UploadToFirebase /\ UNCHANGED <<anomalyVars, periodVars, frontVars>>
    \/ DemoStep /\ UNCHANGED <<anomalyVars, periodVars, frontVars>>
    \/ DemoReturn /\ UNCHANGED <<anomalyVars, periodVars, frontVars>>

SpecUsage == InitUsage /\ [][NextUsage]_vars

(***************************************************************************)
(* Specification of the anomaly detector                                   *)
(***************************************************************************)
InitDetector == InitAnomaly /\ IdleUsage /\ IdlePeriod /\ IdleFront

NextDetector ==
    \/ DetectAnomalies /\ UNCHANGED <<usageVars, periodVars, frontVars>>
    \/ HistoricalTab /\ UNCHANGED <<usageVars, periodVars, frontVars>>

SpecDetector == InitDetector /\ [][NextDetector]_vars

(***************************************************************************)
(* Specification of the period usage                                       *)
(***************************************************************************)
InitPeriodUsage == InitPeriod /\ IdleUsage /\ IdleAnomaly /\ IdleFront

NextPeriodUsage ==
    \/ GetDailyUsage /\ UNCHANGED <<usageVars, anomalyVars, frontVars>>
    \/ GetHourlyUsage /\ UNCHANGED <<usageVars, anomalyVars, frontVars>>

SpecPeriodUsage == InitPeriodUsage /\ [][NextPeriodUsage]_vars

\* the methods of FirebaseManager that read the stored history
InitHistoryUse == InitHistory /\ IdleUsage /\ IdleAnomaly /\ IdleFront

NextHistory ==
    \/ GetDailyUsage /\ UNCHANGED <<usageVars, anomalyVars, frontVars>>
    \/ GetHourlyUsage /\ UNCHANGED <<usageVars, anomalyVars, frontVars>>
    \/ GetHistoricalData /\ UNCHANGED <<usageVars, anomalyVars, frontVars>>
    \/ GetConnectionLogs /\ UNCHANGED <<usageVars, anomalyVars, frontVars>>

SpecHistory == InitHistoryUse /\ [][NextHistory]_vars

(***************************************************************************)
(* Specification of the device status                                      *)
(***************************************************************************)
coreVars == <<usageVars, anomalyVars, periodVars>>
IdleCore == IdleUsage /\ IdleAnomaly /\ IdlePeriod

InitDeviceStatus == InitDevice /\ IdleAlerts /\ IdleApp /\ IdleCore

NextDeviceStatus ==
    \/ FirebaseGetDeviceStatus /\ UNCHANGED <<coreVars, alertVars, appVars>>
    \/ ESPGetDeviceStatus /\ UNCHANGED <<coreVars, alertVars, appVars>>

SpecDeviceStatus == InitDeviceStatus /\ [][NextDeviceStatus]_vars

(***************************************************************************)
(* Specification of check_alerts                                           *)
(***************************************************************************)
InitCheckAlerts == InitAlerts /\ IdleDevice /\ IdleApp /\ IdleCore

NextCheckAlerts == CheckAlerts /\ UNCHANGED <<coreVars, deviceVars, appVars>>

SpecCheckAlerts == InitCheckAlerts /\ [][NextCheckAlerts]_vars

(***************************************************************************)
(* Specification of the session                                            *)
(***************************************************************************)
InitSession == InitApp /\ IdleDevice /\ IdleAlerts /\ IdleCore

NextSession ==
    \/ RunLoginPage /\ UNCHANGED <<coreVars, deviceVars, alertVars>>
    \/ RunSignupPage /\ UNCHANGED <<coreVars, deviceVars, alertVars>>
    \/ RunResetPasswordPage /\ UNCHANGED <<coreVars, deviceVars, alertVars>>
    \/ RunDashboard /\ UNCHANGED <<coreVars, deviceVars, alertVars>>
    \/ RunSettings /\ UNCHANGED <<coreVars, deviceVars, alertVars>>
    \/ RunLogout /\ UNCHANGED <<coreVars, deviceVars, alertVars>>
    \/ SimpleAppInitFirebase /\ UNCHANGED <<coreVars, deviceVars, alertVars>>

SpecSession == InitSession /\ [][NextSession]_vars

(***************************************************************************)
(* Properties of the usage accountants (SpecUsage)                         *)
(***************************************************************************)
\* C1: in every accounting loop, a reading after the first resets
\* hourly_usage before adding its volume exactly when its hour of day
\* differs from the hour of the previous reading, and daily_usage exactly
\* when its calendar day differs from the calendar day of the previous
\* reading; otherwise the accumulators keep accumulating.
C1_ResetExactlyOnBoundary ==
    [][ (i' = i + 1 /\ i >= 1) =>
          LET prev == readings[i].timestamp
          IN  /\ hourly_usage' =
                   (IF HourOf(current_time) # HourOf(prev) THEN 0 ELSE hourly_usage)
                   + volume'
              /\ daily_usage' =
                   (IF DateOf(current_time) # DateOf(prev) THEN 0 ELSE daily_usage)
                   + volume' ]_vars

\* four readings, the hour changing between the second and the third only:
\* the second and the fourth accumulate, the third starts from zero
C1_Witness ==
    /\ Len(readings) = 4
    /\ HourOf(readings[1].timestamp) = HourOf(readings[2].timestamp)
    /\ HourOf(readings[2].timestamp) # HourOf(readings[3].timestamp)
    /\ HourOf(readings[3].timestamp) = HourOf(readings[4].timestamp)
    /\ readings[2].hourly_usage > readings[2].volume
    /\ readings[3].hourly_usage = readings[3].volume
    /\ readings[4].hourly_usage > readings[4].volume
    /\ hourly_usage > volume

\* C2: every per-reading volume is >= 0 for every noise draw, so between
\* two consecutive readings without a reset hourly_usage and daily_usage
\* never decrease.
C2_IntervalVolumeNonNegative ==
    [][ (i' = i + 1) =>
          /\ volume' >= 0
          /\ (i >= 1 /\ HourOf(current_time) = HourOf(readings[i].timestamp)
                => hourly_usage' >= hourly_usage)
          /\ (i >= 1 /\ DateOf(current_time) = DateOf(readings[i].timestamp)
                => daily_usage' >= daily_usage) ]_vars

\* C7: the first reading of a new calendar day has hourly_usage equal to
\* its own volume, also when its hour of day equals that of the reading
\* before it.
C7_DayChangeResetsHourly ==
    (i >= 2 /\ Len(readings) >= 2
       /\ DateOf(readings[i].timestamp) # DateOf(readings[i - 1].timestamp))
      => hourly_usage = volume

\* C11: the first reading of a stream carries no usage: its interval
\* volume, hourly_usage and daily_usage are 0.
C11_FirstReadingNoUsage ==
    Len(readings) >= 1 =>
      /\ readings[1].volume = 0
      /\ readings[1].hourly_usage = 0
      /\ readings[1].daily_usage = 0

\* C12: given zero readings (num_days * readings_per_day = 0, an empty
\* date range) the accountants raise nothing and return empty output.
C12_ZeroReadingsEmptyOutput ==
    (fn # "none" /\ num_readings = 0) => (pc # "raised" /\ readings = <<>>)

Abs(a) == IF a < 0 THEN -a ELSE a

\* C13 as claimed: readings one minute apart give the second reading an
\* interval volume of flow_rate / 60 litres (1.0 litre at flow_rate = 60),
\* up to the rounding of the two fields to 0.01.
C13_MinuteAtSixtyIsOneLitre ==
    (fn = "simulate_water_data" /\ interval = 1) =>
      \A k \in 2..Len(readings) :
        Abs(60 * readings[k].volume - readings[k].flow_rate) <= 60 * 50 + 50

\* C13 as amended: in simulate_water_data the interval volume of a reading
\* is flow_rate times the minutes between two readings, so readings one
\* minute apart give a volume of flow_rate litres (60.0 litres at
\* flow_rate = 60), up to the rounding of the two fields to 0.01.
C13_VolumeIsFlowTimesMinutes ==
    fn = "simulate_water_data" =>
      \A k \in 2..Len(readings) :
        Abs(readings[k].volume - readings[k].flow_rate * interval)
          <= 50 * interval + 50

\* two readings one minute apart, the second with volume = flow_rate > 0
C13_Witness ==
    /\ fn = "simulate_water_data"
    /\ interval = 1
    /\ Len(readings) >= 2
    /\ readings[2].timestamp = readings[1].timestamp + 1
    /\ readings[2].flow_rate > 0
    /\ readings[2].volume = readings[2].flow_rate

\* C14: in the readings upload_to_firebase writes for a list of
\* simulate_water_data, total_ml is non-decreasing in timestamp order.
C14_TotalMlNonDecreasing ==
    pc = "uploaded" =>
      \A k \in 2..Len(batch_data) :
        /\ batch_data[k - 1].timestamp <= batch_data[k].timestamp
        /\ batch_data[k - 1].total_ml <= batch_data[k].total_ml

\* C26: in every reading the usage accountants produce, hourly_usage <=
\* daily_usage, for every num_days >= 1, readings_per_day >= 1 and start
\* time.
C26_HourlyAtMostDaily ==
    \A k \in 1..Len(readings) :
       readings[k].hourly_usage <= readings[k].daily_usage

(***************************************************************************)
(* Properties of detect_anomalies (SpecDetector)                           *)
(***************************************************************************)
\* the call ran the rolling computation on a numeric column
Computed == apc = "returned" /\ df.rows > 0 /\ df.has_column /\ df.numeric

\* sum over the positions lo..hi of the squares of w * x[j] - S, which is
\* w * w times the sum of the squared deviations from the mean S / w
RECURSIVE DevSq(_, _, _, _, _)
DevSq(x, lo, hi, w, S) ==
    IF lo > hi THEN 0
    ELSE (w * x[lo] - S) * (w * x[lo] - S) + DevSq(x, lo + 1, hi, w, S)

\* index idx is an outlier of the w values at positions lo..lo + w - 1:
\* their sample standard deviation is > 0 and |x[idx] - mean| > t * std
IsOutlier(x, idx, lo, w, t) ==
    LET S == SumIdx(x, lo, lo + w - 1)
        D == DevSq(x, lo, lo + w - 1, w, S)
        dev == w * x[idx] - S
    IN  /\ D > 0
        /\ t[2] * t[2] * (w - 1) * dev * dev > t[1] * t[1] * D

\* C3: at every index whose centered window of w values lies inside the
\* series, the flag is true iff the sample standard deviation of the
\* window (center included) is > 0 and |x[i] - mean| > t * std; a window of
\* identical values gives false, and the computation raises nothing.
C3_FlagIffZScoreExceeds ==
    Computed =>
      /\ ~caught
      /\ \A idx \in 1..df.rows :
           LET lo == idx - window \div 2
           IN  (lo >= 1 /\ lo + window - 1 <= df.rows) =>
                 (anomalies.values[idx] = "True"
                    <=> IsOutlier(df.x, idx, lo, window, threshold))

\* a series with a flagged index and with a window of identical values
C3_Witness ==
    /\ Computed
    /\ \E idx \in 1..df.rows : anomalies.values[idx] = "True"
    /\ \E idx \in 1..df.rows :
         LET lo == idx - window \div 2
         IN  /\ lo >= 1 /\ lo + window - 1 <= df.rows
             /\ \A j \in lo..(lo + window - 1) : df.x[j] = df.x[lo]
             /\ anomalies.values[idx] = "False"

\* C4 as claimed: for even w, every index i (position i = idx - 1) for
\* which i - w/2 >= 0 and i + w/2 < n does not hold is flagged false.
C4_FalseOutsideStrictWindow ==
    (Computed /\ window % 2 = 0) =>
      \A idx \in 1..df.rows :
        ~((idx - 1) - window \div 2 >= 0 /\ (idx - 1) + window \div 2 < df.rows)
          => anomalies.values[idx] = "False"

\* C4 as amended: for even w, every index i for which i - w/2 >= 0 and
\* i + w/2 <= n does not hold is flagged false: the indices i < w/2 and
\* i > n - w/2; the index i = n - w/2 has a full window and may be flagged.
C4_FalseOutsideWindow ==
    (Computed /\ window % 2 = 0) =>
      \A idx \in 1..df.rows :
        ~((idx - 1) - window \div 2 >= 0 /\ (idx - 1) + window \div 2 <= df.rows)
          => anomalies.values[idx] = "False"

\* an even window no longer than the series, position n - w/2 flagged and
\* every position before w/2 and after n - w/2 not
C4_Witness ==
    /\ Computed
    /\ window % 2 = 0
    /\ df.rows > window
    /\ anomalies.values[df.rows - window \div 2 + 1] = "True"
    /\ \A idx \in 1..(window \div 2) : anomalies.values[idx] = "False"
    /\ \E idx \in 1..(window \div 2) : df.x[idx] # df.x[idx + 1]

\* C8: for every input frame the series returned has one entry per input
\* row and every entry is a boolean.
C8_BooleanPerRow ==
    apc = "returned" =>
      /\ Len(anomalies.values) = df.rows
      /\ \A idx \in 1..df.rows : anomalies.values[idx] \in {"True", "False"}

\* C9: on an empty series and on a series of fewer than w points the call
\* returns one false per row and raises nothing.
C9_ShortSeriesAllFalse ==
    (apc = "returned" /\ (df.rows = 0 \/ (df.has_column /\ df.rows < window))) =>
      /\ Len(anomalies.values) = df.rows
      /\ \A idx \in 1..df.rows : anomalies.values[idx] = "False"

\* a numeric series of at least two different values, shorter than w
C9_Witness ==
    /\ apc = "returned"
    /\ df.has_column /\ df.numeric
    /\ df.rows >= 2 /\ df.rows < window
    /\ df.x[1] # df.x[2]
    /\ \A idx \in 1..df.rows : anomalies.values[idx] = "False"

\* the series is constant except for a different value at position 15
SpikeAt15 ==
    /\ df.rows = SpikeLen
    /\ df.has_column /\ df.numeric
    /\ df.x[16] # df.x[1]
    /\ \A idx \in 1..df.rows : idx # 16 => df.x[idx] = df.x[1]

\* C10: with w = 20 and t = 3.0, a series of 30 values that is constant
\* except at position 15 has position 15 flagged true and every other
\* position flagged false.
C10_SingleSpikeFlagged ==
    (apc = "returned" /\ SpikeAt15 /\ window = DefaultWindow
       /\ threshold = DefaultThreshold) =>
      \A idx \in 1..df.rows :
        anomalies.values[idx] = IF idx = 16 THEN "True" ELSE "False"

\* a spike below the constant, flagged
C10_Witness ==
    /\ apc = "returned"
    /\ SpikeAt15
    /\ window = DefaultWindow /\ threshold = DefaultThreshold
    /\ df.x[16] < df.x[1]
    /\ anomalies.values[16] = "True"

NonNumericInput == df.has_column /\ ~df.numeric /\ df.rows > 0

\* C16 as claimed: a non-numeric value in the series makes detect_anomalies
\* fail with an error that reaches the caller; no flag series is returned.
C16_NonNumericRaises ==
    (NonNumericInput /\ calls >= 1) => anomalies.dtype = "none"

\* C16 as amended: a non-numeric value in the series raises inside
\* detect_anomalies, the except branch catches it, and the caller gets a
\* boolean series with False for every row of the frame.
C16_NonNumericAllFalse ==
    (NonNumericInput /\ calls >= 1) =>
      /\ caught
      /\ anomalies.dtype = "bool"
      /\ Len(anomalies.values) = df.rows
      /\ \A idx \in 1..df.rows : anomalies.values[idx] = "False"

C16_Witness ==
    /\ NonNumericInput
    /\ df.rows >= 2
    /\ apc = "plotted"
    /\ caught
    /\ anomaly_points = <<>>

Metered(rs) == \A k \in 1..Len(rs) : rs[k].has_timestamp /\ rs[k].has_total_ml

\* total_ml / 1000 litres, in 1e-4 litre
Litres(r) == 10 * r.total_ml

NonDecreasingVolume(rs) ==
    \A k \in 2..Len(rs) : rs[k - 1].total_ml <= rs[k].total_ml

\* sum of max(0, total_volume[k] - total_volume[k-1]) over k = from..Len
RECURSIVE SumClampedDiffs(_, _)
SumClampedDiffs(rs, from) ==
    IF from > Len(rs) THEN 0
    ELSE Max(0, Litres(rs[from]) - Litres(rs[from - 1]))
         + SumClampedDiffs(rs, from + 1)

\* C5: on a day's readings whose total_volume is non-decreasing in
\* timestamp order get_daily_usage returns total_volume[last] -
\* total_volume[first], the sum of the clamped consecutive differences.
C5_DailyUsageIsLastMinusFirst ==
    (upc = "returned" /\ ~demo_mode /\ method = "get_daily_usage"
       /\ Len(fetched) >= 1 /\ Metered(fetched) /\ NonDecreasingVolume(fetched)) =>
      /\ usage = Litres(fetched[Len(fetched)]) - Litres(fetched[1])
      /\ usage = SumClampedDiffs(fetched, 2)

\* three readings stored out of timestamp order, the counter growing
C5_Witness ==
    /\ upc = "returned" /\ ~demo_mode /\ method = "get_daily_usage"
    /\ Len(fetched) = 3 /\ Metered(fetched) /\ NonDecreasingVolume(fetched)
    /\ fetched[1].timestamp < fetched[2].timestamp
    /\ fetched[2].timestamp < fetched[3].timestamp
    /\ PathReadings(responses, 1)[1].timestamp = fetched[3].timestamp
    /\ usage = 20000

\* C6: for every total_volume sequence, drops of the counter included, the
\* period usage equals the sum of the clamped consecutive differences.
C6_UsageIsSumOfClampedDiffs ==
    (upc = "returned" /\ ~demo_mode /\ Len(fetched) >= 1 /\ Metered(fetched)) =>
      usage = SumClampedDiffs(fetched, 2)

UsageCall == method \in {"get_daily_usage", "get_hourly_usage"}

\* C15: get_hourly_usage and get_daily_usage never return a negative value
\* and never raise: whatever was fetched (nothing, one reading, a
\* decreasing total_volume, readings without total_volume) and whatever
\* paths failed, the call returns a number >= 0.
C15_UsageNeverNegative ==
    (UsageCall /\ upc # "call") => (upc = "returned" /\ usage >= 0)

\* a counter that went down between the first and the last reading
C15_Witness ==
    /\ ~demo_mode
    /\ UsageCall
    /\ upc = "returned"
    /\ Len(fetched) >= 2
    /\ TotalVolume(fetched[Len(fetched)]) < TotalVolume(fetched[1])
    /\ usage = 0

Found == PathReadings(responses, 1)

MissingTimestamp ==
    ~demo_mode /\ \E k \in 1..Len(Found) : ~Found[k].has_timestamp

ReadingsCall == UsageCall \/ method = "get_historical_data"

\* C17 as claimed: when a fetched reading lacks the timestamp field,
\* processing it fails with an error that is propagated to the caller: the
\* call does not return a result.
C17_MissingTimestampRaises ==
    (MissingTimestamp /\ ReadingsCall) => upc # "returned"

\* C17 as amended: when a fetched reading lacks the timestamp field, no
\* error is raised: the reading is sorted with the key 0, so it is placed
\* before every reading that has a (positive) timestamp, all readings are
\* returned, and _calculate_usage_for_period takes it as the first reading;
\* get_historical_data returns a row for every reading, the rows without
\* timestamp after the others.
C17_MissingTimestampSortsFirst ==
    (MissingTimestamp /\ ReadingsCall /\ upc # "call") =>
      /\ upc = "returned"
      /\ Len(fetched) = Len(Found)
      /\ \A j, k \in 1..Len(fetched) :
           (fetched[j].has_timestamp /\ ~fetched[k].has_timestamp) => k < j
      /\ UsageCall =>
           usage = Max(0, TotalVolume(fetched[Len(fetched)]) - TotalVolume(fetched[1]))
      /\ method = "get_historical_data" =>
           /\ Len(frame) = Len(fetched)
           /\ \A j, k \in 1..Len(frame) :
                (frame[j].has_timestamp /\ ~frame[k].has_timestamp) => j < k

\* a reading without timestamp stored after two readings that have one
C17_Witness ==
    /\ MissingTimestamp
    /\ UsageCall
    /\ upc = "returned"
    /\ Len(Found) = 3
    /\ Found[1].has_timestamp /\ Found[2].has_timestamp
    /\ ~Found[3].has_timestamp
    /\ ~fetched[1].has_timestamp
    /\ usage > 0

\* rs is ps in another order, each reading converted
IsReordering(rs, ps) ==
    /\ Len(rs) = Len(ps)
    /\ \E q \in IndexOrders(Len(ps)) :
         \A k \in 1..Len(ps) : rs[k] = ps[q[k]]

NonDecreasingTimestamps(rs) ==
    \A j, k \in 1..Len(rs) :
       (j < k /\ rs[j].has_timestamp /\ rs[k].has_timestamp) =>
          rs[j].timestamp <= rs[k].timestamp

\* C19: for any order in which the readings are stored, the list of
\* live-mode get_historical_readings and the frame of get_historical_data
\* are in non-decreasing timestamp order, and every stored reading is in
\* both, readings with equal timestamps included.
C19_SortedAndRetained ==
    (~demo_mode /\ method = "get_historical_data" /\ upc = "returned") =>
      /\ NonDecreasingTimestamps(fetched)
      /\ IsReordering(fetched, [k \in 1..Len(Found) |-> ConvertTotalMl(Found[k])])
      /\ NonDecreasingTimestamps(frame)
      /\ IsReordering(frame, fetched)

\* three readings stored latest first, two of them with the same timestamp
\* and different counters
C19_Witness ==
    /\ ~demo_mode
    /\ method = "get_historical_data"
    /\ upc = "returned"
    /\ Len(Found) = 3
    /\ \A k \in 1..3 : Found[k].has_timestamp
    /\ Found[1].timestamp > Found[2].timestamp
    /\ Found[2].timestamp = Found[3].timestamp
    /\ Found[2] # Found[3]
    /\ frame[3].timestamp = Found[1].timestamp

LogsCase ==
    /\ ~demo_mode
    /\ method = "get_connection_logs"
    /\ upc = "returned"
    /\ fetched # <<>>
    /\ \A k \in 1..Len(fetched) : fetched[k].has_timestamp

\* C20: for a non-empty list of readings with timestamps, the log of
\* live-mode get_connection_logs is in non-decreasing timestamp order,
\* begins with a connect one second before the first reading, alternates
\* connect and disconnect, and ends with a disconnect exactly when the last
\* reading is more than 120 seconds older than the current time.
C20_ConnectionLogShape ==
    LogsCase =>
      /\ logs # <<>>
      /\ logs[1] = ConnectEvent(fetched[1].timestamp - 1)
      /\ \A k \in 2..Len(logs) : logs[k - 1].timestamp <= logs[k].timestamp
      /\ \A k \in 1..Len(logs) :
           logs[k].event = IF k % 2 = 1 THEN "connect" ELSE "disconnect"
      /\ logs[Len(logs)].event = "disconnect"
           <=> now - fetched[Len(fetched)].timestamp > 120

\* a gap of 121 seconds between two readings, the last one 121 seconds old
C20_Witness ==
    /\ LogsCase
    /\ Len(fetched) = 2
    /\ fetched[2].timestamp - fetched[1].timestamp = 121
    /\ now - fetched[2].timestamp = 121
    /\ Len(logs) = 4

LongGaps ==
    { k \in 2..Len(fetched) : fetched[k].timestamp - fetched[k - 1].timestamp > 120 }

\* C21: live-mode get_connection_logs emits a disconnect at previous
\* reading + 60 s followed by a connect at next reading - 1 s for exactly
\* the consecutive readings more than 120 seconds apart, and no event for a
\* gap of 120 seconds or less.
C21_EventsExactlyForLongGaps ==
    LogsCase =>
      /\ \A k \in LongGaps :
           \E e \in 2..(Len(logs) - 1) :
              /\ logs[e] = DisconnectEvent(fetched[k - 1].timestamp + 60)
              /\ logs[e + 1] = ConnectEvent(fetched[k].timestamp - 1)
      /\ \A k \in (2..Len(fetched)) \ LongGaps :
           \A e \in 1..Len(logs) :
              ~(fetched[k - 1].timestamp <= logs[e].timestamp
                  /\ logs[e].timestamp <= fetched[k].timestamp)
      /\ Len(logs) = 1 + 2 * Cardinality(LongGaps)
                       + (IF now - fetched[Len(fetched)].timestamp > 120 THEN 1 ELSE 0)

\* readings 120 seconds apart, then 1 second apart: no event between them
C21_Witness ==
    /\ LogsCase
    /\ Len(fetched) = 3
    /\ fetched[2].timestamp - fetched[1].timestamp = 120
    /\ fetched[3].timestamp - fetched[2].timestamp = 1
    /\ Len(logs) = 1

(***************************************************************************)
(* Properties of the device status (SpecDeviceStatus)                      *)
(***************************************************************************)
\* C22: a device is reported connected exactly when its last update is not
\* more than 120 seconds old, and FirebaseManager.get_device_status and
\* ESPManager.get_device_status give the same connected value for the same
\* last_update at every age, an age of exactly 120 seconds included.
C22_ConnectedIffFreshAndAgree ==
    (dpc = "esp" /\ dev_manager = "live" /\ fb_status.present) =>
      /\ fb_status.connected <=> (clock - fb_status.last_update <= 120)
      /\ esp_status.connected <=> fb_status.connected

(***************************************************************************)
(* Properties of check_alerts (SpecCheckAlerts)                            *)
(***************************************************************************)
AlertOrder ==
    <<"High pressure detected", "Low pressure detected",
      "High flow rate detected", "Daily water usage exceeded">>

\* the data field and the threshold key of the alert are present and the
\* strict comparison holds
AlertDue(message) ==
    CASE message = "High pressure detected" ->
           /\ alert_data.has_pressure /\ alert_thresholds.has_pressure_high
           /\ alert_data.pressure > alert_thresholds.pressure_high
      [] message = "Low pressure detected" ->
           /\ alert_data.has_pressure /\ alert_thresholds.has_pressure_low
           /\ alert_data.pressure < alert_thresholds.pressure_low
      [] message = "High flow rate detected" ->
           /\ alert_data.has_flow_rate /\ alert_thresholds.has_flow_high
           /\ alert_data.flow_rate > alert_thresholds.flow_high
      [] message = "Daily water usage exceeded" ->
           /\ alert_data.has_daily_usage /\ alert_thresholds.has_daily_usage_high
           /\ alert_data.daily_usage > alert_thresholds.daily_usage_high

AlertSeverity(message) ==
    IF message \in {"High pressure detected", "Low pressure detected"}
    THEN "high" ELSE "medium"

\* C23: check_alerts returns, in the order high pressure, low pressure,
\* high flow, daily usage, exactly the alerts whose data field and threshold
\* key are present and whose strict comparison holds, with severity high
\* for the pressure alerts and medium for the others; it returns an empty
\* list when data or thresholds is None or empty.
C23_AlertsAreTheDueOnes ==
    alpc = "returned" =>
      LET due == SelectSeq(AlertOrder, AlertDue)
      IN  IF EmptyData(alert_data) \/ EmptyThresholds(alert_thresholds)
          THEN alerts = <<>>
          ELSE /\ Len(alerts) = Len(due)
               /\ \A k \in 1..Len(due) :
                    /\ alerts[k].message = due[k]
                    /\ alerts[k].severity = AlertSeverity(due[k])

\* a pressure equal to its high threshold and a flow rate equal to its
\* threshold raise nothing, the daily usage above its threshold does
C23_Witness ==
    /\ alpc = "returned"
    /\ alert_data.has_pressure /\ alert_thresholds.has_pressure_high
    /\ alert_data.pressure = alert_thresholds.pressure_high
    /\ alert_data.has_flow_rate /\ alert_thresholds.has_flow_high
    /\ alert_data.flow_rate = alert_thresholds.flow_high
    /\ alert_data.has_daily_usage /\ alert_thresholds.has_daily_usage_high
    /\ alert_data.daily_usage > alert_thresholds.daily_usage_high
    /\ ~alert_thresholds.has_pressure_low
    /\ alerts = <<Alert("Daily water usage exceeded", "medium")>>

\* C30: for thresholds the form accepts (pressure_high in 1.0 .. 10.0,
\* pressure_low in 0.1 .. 5.0) and every pressure, check_alerts emits at
\* most one of the alerts High pressure detected and Low pressure detected.
C30_AtMostOnePressureAlert ==
    (/\ alpc = "returned"
     /\ alert_thresholds.has_pressure_high /\ alert_thresholds.has_pressure_low
     /\ alert_thresholds.pressure_high \in 10..100
     /\ alert_thresholds.pressure_low \in 1..50) =>
      ~(/\ \E k \in 1..Len(alerts) : alerts[k].message = "High pressure detected"
        /\ \E k \in 1..Len(alerts) : alerts[k].message = "Low pressure detected")

(***************************************************************************)
(* Properties of the session                                               *)
(***************************************************************************)
PageFunctions == {"display_dashboard", "display_settings"}
AuthenticationPages == {"login_page", "signup_page", "reset_password_page"}

\* C24: in every session state of app.py logged_in is True exactly when
\* user_id is not None, exactly when user_email is not None and exactly
\* when current_view is 'dashboard'; after logout_user the four fields are
\* False, None, None and 'login' again
C24_SessionFieldsAgree ==
    /\ logged_in <=> user_id # "None"
    /\ logged_in <=> user_email # "None"
    /\ logged_in <=> current_view = "dashboard"
    /\ invoked = "logout_user" =>
          SessionFields = [logged_in |-> FALSE, user_id |-> "None",
                           user_email |-> "None", current_view |-> "login"]

\* a logged-in user has just logged out
C24_Witness ==
    /\ invoked = "logout_user"
    /\ run_logged_in
    /\ ~logged_in

\* C25: display_dashboard and display_settings are invoked only in a run
\* that starts with logged_in True; logged_in becomes True only in a run of
\* login_page that accepts the submitted pair; the run after Logout shows an
\* authentication page
C25_PagesNeedLogin ==
    [][/\ invoked' \in PageFunctions => logged_in
       /\ (~logged_in /\ logged_in') => (invoked' = "login_page" /\ rerun')
       /\ invoked = "logout_user" => invoked' \in AuthenticationPages]_vars

\* the settings page was shown, the user logged out, and the run after the
\* logout showed the login page
C25_Witness ==
    /\ shown.set
    /\ ~logged_in
    /\ invoked = "login_page"
    /\ ~rerun

\* C27: whatever credentials the environment holds, some e-mail/password
\* pair logs the user of app.py in
C27_SomePairLogsIn ==
    (app = "app.py" /\ firebase_initialized /\ ~logged_in) =>
        \E input \in LoginInputs :
            LoginResult(session_demo, manager_demo, input) # "None"

\* C28: after init_firebase st.session_state.demo_mode is set and is True
\* exactly when firebase_manager.demo_mode is True
C28_DemoFlagsAgree ==
    firebase_initialized =>
        /\ session_demo # "unset"
        /\ (session_demo = "True") <=> (manager_demo = "True")

\* C29: after a save that reported success the settings page shows the
\* saved thresholds and check_alerts of display_dashboard uses them
C29_SavedThresholdsAreUsed ==
    (last_saved.set /\ logged_in) =>
        /\ invoked = "display_settings" => shown = last_saved
        /\ (invoked = "display_dashboard" /\ used.set) => used = last_saved
====
